---- MODULE Spec2Model ----
(***************************************************************************)
(* A model of wyag's object database: the repository layout                *)
(* (src/lib/repository.py), object framing, the KVLM and tree codecs and   *)
(* the tree materializer (src/libwyag.py).                                 *)
(*                                                                         *)
(* Bytes are the integers 0..255 and a bytes value is a sequence of them.  *)
(* Python indexes from 0; the helpers below take and return 0-based        *)
(* indices, with find() returning -1 for "not found", as in the source.    *)
(***************************************************************************)
EXTENDS Integers, Sequences, FiniteSets, TLC

VARIABLES
    objdirs,    \* names xx for which .git/objects/xx is a directory
    objfiles,   \* .git/objects/xx/rest -> the file's bytes, keyed by <<xx, rest>>
    written,    \* digest -> the (fmt, payload) inputs whose write returned it
    res,        \* what the last operation was given and what it returned or raised
    mem,        \* the object held in memory by the codec's caller
    fs          \* the file system outside .git/objects: path -> node

vars == <<objdirs, objfiles, written, res, mem, fs>>

(***************************************************************************)
(* Byte constants of the formats.                                          *)
(***************************************************************************)
SP == 32
NUL == 0
NL == 10

------------------------------------------------------------------------------
(***************************************************************************)
(* Python's bytes/str primitives.                                          *)
(***************************************************************************)
Min(S) == CHOOSE m \in S : \A n \in S : m <= n

\* s[i] for 0 <= i < len(s)
At(s, i) == s[i + 1]

\* Python's normalisation of a slice or find bound: negative counts from the
\* end, and the result is clamped to 0..len.
NormIdx(s, i) ==
    IF i < 0 THEN (IF Len(s) + i < 0 THEN 0 ELSE Len(s) + i)
    ELSE IF i > Len(s) THEN Len(s) ELSE i

\* s[a:b]
Slice(s, a, b) ==
    LET lo == NormIdx(s, a)
        hi == NormIdx(s, b)
    IN IF lo >= hi THEN << >> ELSE SubSeq(s, lo + 1, hi)

\* s.find(bytes([b]), start): least index >= start holding b, else -1
Find(s, b, start) ==
    LET hits == {i \in NormIdx(s, start)..(Len(s) - 1) : s[i + 1] = b}
    IN IF start > Len(s) \/ hits = {} THEN -1 ELSE Min(hits)

\* s.startswith(p)
StartsWith(s, p) == Len(s) >= Len(p) /\ SubSeq(s, 1, Len(p)) = p

\* v.replace(b'\n', b'\n ')  (libwyag.py:416)
RECURSIVE EscapeNL(_)
EscapeNL(v) ==
    IF v = << >> THEN << >>
    ELSE IF Head(v) = NL THEN <<NL, SP>> \o EscapeNL(Tail(v))
    ELSE <<Head(v)>> \o EscapeNL(Tail(v))

\* a plausible slip: the leading space of continuation lines is kept
UnescapeNL_keep(v) == v

\* v.replace(b'\n ', b'\n')  (libwyag.py:390): leftmost, non-overlapping
RECURSIVE UnescapeNL(_)
UnescapeNL(v) ==
    IF v = << >> THEN << >>
    ELSE IF Len(v) >= 2 /\ v[1] = NL /\ v[2] = SP
         THEN <<NL>> \o UnescapeNL(SubSeq(v, 3, Len(v)))
    ELSE <<Head(v)>> \o UnescapeNL(Tail(v))

\* str(n).encode() for n >= 0  (libwyag.py:309)
RECURSIVE DecimalBytes(_)
DecimalBytes(n) ==
    IF n < 10 THEN <<48 + n>> ELSE DecimalBytes(n \div 10) \o <<48 + (n % 10)>>

IsDigit(b) == b >= 48 /\ b <= 57
IsSpace(b) == b \in {9, 10, 11, 12, 13, 32}

RECURSIVE LStrip(_)
LStrip(s) == IF s # << >> /\ IsSpace(Head(s)) THEN LStrip(Tail(s)) ELSE s

RECURSIVE RStrip(_)
RStrip(s) ==
    IF s # << >> /\ IsSpace(s[Len(s)]) THEN RStrip(SubSeq(s, 1, Len(s) - 1)) ELSE s

RECURSIVE DigitsValue(_)
DigitsValue(s) ==
    IF s = << >> THEN 0 ELSE 10 * DigitsValue(SubSeq(s, 1, Len(s) - 1)) + (s[Len(s)] - 48)

\* int(s.decode("ascii"))  (libwyag.py:289): surrounding whitespace is
\* stripped, one sign is allowed, then decimal digits.
IntParse(s) ==
    IF \E i \in 1..Len(s) : s[i] > 127 THEN [kind |-> "raise", exc |-> "UnicodeDecodeError"]
    ELSE LET t == RStrip(LStrip(s))
             signed == t # << >> /\ Head(t) \in {43, 45}
             d == IF signed THEN Tail(t) ELSE t
         IN IF d = << >> \/ \E i \in 1..Len(d) : ~IsDigit(d[i])
            THEN [kind |-> "raise", exc |-> "ValueError"]
            ELSE [kind |-> "ok",
                  val |-> IF signed /\ Head(t) = 45 THEN 0 - DigitsValue(d)
                          ELSE DigitsValue(d)]

------------------------------------------------------------------------------
(***************************************************************************)
(* KVLM codec.  A parsed record (Python's insertion-ordered dict) is       *)
(* [fields |-> <<[key, vals], ...>>, msg |-> bytes]: fields in insertion   *)
(* order, vals the one value or, for a repeated key, the list of values,   *)
(* msg the entry stored under the key None.                                *)
(***************************************************************************)
Raise(e) == [kind |-> "raise", exc |-> e]

\* key in dct
HasKey(fields, key) == \E i \in 1..Len(fields) : fields[i].key = key

\* lines 393-399: a repeated key turns its value into a list and appends;
\* a new key is inserted last
DictAdd(fields, key, value) ==
    IF HasKey(fields, key)
    THEN [i \in 1..Len(fields) |->
             IF fields[i].key = key
             THEN [key |-> key, vals |-> Append(fields[i].vals, value)]
             ELSE fields[i]]
    ELSE Append(fields, [key |-> key, vals |-> <<value>>])

\* lines 382-386: the scan for the newline that ends the value.  end is the
\* loop variable; find() returning -1 makes raw[end+1] read raw[0], and the
\* loop state is then the same every time it comes back to -1: wrapped
\* records that it has been there, a second visit is a loop that never ends.
RECURSIVE ValueEnd(_, _, _)
ValueEnd(raw, end, wrapped) ==
    LET e == Find(raw, NL, end + 1)
    IN IF e + 1 >= Len(raw) THEN [kind |-> "raise", exc |-> "IndexError"]
       ELSE IF At(raw, e + 1) # SP THEN [kind |-> "break", end |-> e]
       ELSE IF e = -1 /\ wrapped THEN [kind |-> "hang"]
       ELSE ValueEnd(raw, e, wrapped \/ e = -1)

\* kvlm_parse(raw, start, dct).  seen holds the values start has had: the
\* next start depends on raw and start alone, so a start that comes back
\* recurses until Python's recursion limit raises RecursionError.
RECURSIVE KvlmParseFrom(_, _, _, _)
KvlmParseFrom(raw, start, fields, seen) ==
    LET spc == Find(raw, SP, start)
        nl == Find(raw, NL, start)
    IN IF spc < 0 \/ nl < spc
       THEN IF nl # start THEN Raise("AssertionError")
            ELSE [kind |-> "ok",
                  dct |-> [fields |-> fields, msg |-> Slice(raw, start + 1, Len(raw))]]
       ELSE LET key == Slice(raw, start, spc)
                ve == ValueEnd(raw, start, FALSE)
            IN IF ve.kind # "break" THEN ve
               ELSE LET value == UnescapeNL(Slice(raw, spc + 1, ve.end))
                    IN IF (ve.end + 1) \in seen THEN Raise("RecursionError")
                       ELSE KvlmParseFrom(raw, ve.end + 1, DictAdd(fields, key, value),
                                          seen \cup {ve.end + 1})

kvlm_parse(raw) == KvlmParseFrom(raw, 0, << >>, {0})

RECURSIVE SerializeVals(_, _)
SerializeVals(key, vals) ==
    IF vals = << >> THEN << >>
    ELSE key \o <<SP>> \o EscapeNL(Head(vals)) \o <<NL>> \o SerializeVals(key, Tail(vals))

RECURSIVE SerializeFields(_)
SerializeFields(fields) ==
    IF fields = << >> THEN << >>
    ELSE SerializeVals(Head(fields).key, Head(fields).vals) \o SerializeFields(Tail(fields))

kvlm_serialize(kvlm) == SerializeFields(kvlm.fields) \o <<NL>> \o kvlm.msg

------------------------------------------------------------------------------
(***************************************************************************)
(* Tree codec.  A str is the sequence of its code points; a leaf is        *)
(* [mode |-> bytes, path |-> str, sha |-> str of 40 hex characters].       *)
(***************************************************************************)
\* bytes.decode("utf8"), for the one- and two-byte forms (no input of the
\* model holds a lead byte of a longer form); anything else is invalid.
RECURSIVE Utf8Decode(_)
Utf8Decode(b) ==
    IF b = << >> THEN [kind |-> "ok", str |-> << >>]
    ELSE IF b[1] < 128
         THEN LET r == Utf8Decode(Tail(b))
              IN IF r.kind = "ok" THEN [kind |-> "ok", str |-> <<b[1]>> \o r.str] ELSE r
    ELSE IF b[1] >= 194 /\ b[1] <= 223 /\ Len(b) >= 2 /\ b[2] >= 128 /\ b[2] <= 191
         THEN LET r == Utf8Decode(SubSeq(b, 3, Len(b)))
              IN IF r.kind = "ok"
                 THEN [kind |-> "ok", str |-> <<(b[1] - 192) * 64 + (b[2] - 128)>> \o r.str]
                 ELSE r
    ELSE Raise("UnicodeDecodeError")

\* str.encode("utf8"), code points below 2048
RECURSIVE Utf8Encode(_)
Utf8Encode(str) ==
    IF str = << >> THEN << >>
    ELSE IF str[1] < 128 THEN <<str[1]>> \o Utf8Encode(Tail(str))
    ELSE <<192 + (str[1] \div 64), 128 + (str[1] % 64)>> \o Utf8Encode(Tail(str))

HexChar(d) == IF d < 10 THEN 48 + d ELSE 87 + d
HexVal(c) == IF c <= 57 THEN c - 48 ELSE c - 87

RECURSIVE HexPairs(_)
HexPairs(b) ==
    IF b = << >> THEN << >>
    ELSE <<HexChar(b[1] \div 16), HexChar(b[1] % 16)>> \o HexPairs(Tail(b))

\* format(int.from_bytes(b, "big"), "040x")  (lines 458-461), len(b) <= 20:
\* the hex digits of the bytes, zero-padded on the left to 40 characters
HexOfBytes(b) == [i \in 1..(40 - 2 * Len(b)) |-> 48] \o HexPairs(b)

\* int(sha, 16).to_bytes(20, byteorder="big")  (lines 493-494), len(sha) <= 40
BytesOfHex(sha) ==
    LET padded == [i \in 1..(40 - Len(sha)) |-> 48] \o sha
    IN [i \in 1..20 |-> 16 * HexVal(padded[2 * i - 1]) + HexVal(padded[2 * i])]

\* tree_parse_one(raw, start): the next position and the leaf
tree_parse_one(raw, start) ==
    LET x == Find(raw, SP, start)
        mode5 == Slice(raw, start, x)
        mode == IF Len(mode5) = 5 THEN <<48>> \o mode5 ELSE mode5
        y == Find(raw, NUL, x)
        path == Utf8Decode(Slice(raw, x + 1, y))
        sha == HexOfBytes(Slice(raw, y + 1, y + 21))
    IN IF ~(x - start = 5 \/ x - start = 6) THEN Raise("AssertionError")
       ELSE IF path.kind # "ok" THEN path
       ELSE [kind |-> "ok", pos |-> y + 21,
             leaf |-> [mode |-> mode, path |-> path.str, sha |-> sha]]

\* tree_parse(raw): the while loop, with pos its state.  A missing NUL makes
\* find() return -1 and the next pos 20; seen holds the positions pos has
\* had, and a position that comes back is a loop that never ends.
RECURSIVE TreeParseFrom(_, _, _, _)
TreeParseFrom(raw, pos, ret, seen) ==
    IF ~(pos < Len(raw)) THEN [kind |-> "ok", items |-> ret]
    ELSE LET one == tree_parse_one(raw, pos)
         IN IF one.kind # "ok" THEN one
            ELSE IF one.pos \in seen THEN [kind |-> "hang"]
            ELSE TreeParseFrom(raw, one.pos, Append(ret, one.leaf), seen \cup {one.pos})

tree_parse(raw) == TreeParseFrom(raw, 0, << >>, {0})

\* Python's str comparison a <= b: by code point, a prefix sorting first
RECURSIVE StrLeq(_, _)
StrLeq(a, b) ==
    IF a = << >> THEN TRUE
    ELSE IF b = << >> THEN FALSE
    ELSE IF a[1] # b[1] THEN a[1] < b[1]
    ELSE StrLeq(Tail(a), Tail(b))

\* a plausible slip: every leaf sorts by its bare path
tree_leaf_sort_key_path(leaf) == leaf.path

tree_leaf_sort_key(leaf) ==
    IF StartsWith(leaf.mode, <<49, 48>>) THEN leaf.path ELSE leaf.path \o <<47>>

\* list.sort(key=tree_leaf_sort_key) is stable: an item goes after every
\* item whose key is not greater than its own
RECURSIVE InsertLeaf(_, _)
InsertLeaf(sorted, leaf) ==
    IF sorted = << >> THEN <<leaf>>
    ELSE IF StrLeq(tree_leaf_sort_key(sorted[Len(sorted)]), tree_leaf_sort_key(leaf))
         THEN Append(sorted, leaf)
    ELSE Append(InsertLeaf(SubSeq(sorted, 1, Len(sorted) - 1), leaf), sorted[Len(sorted)])

RECURSIVE SortItems(_)
SortItems(items) ==
    IF items = << >> THEN << >>
    ELSE InsertLeaf(SortItems(SubSeq(items, 1, Len(items) - 1)), items[Len(items)])

RECURSIVE EmitItems(_)
EmitItems(items) ==
    IF items = << >> THEN << >>
    ELSE items[1].mode \o <<SP>> \o Utf8Encode(items[1].path) \o <<NUL>>
         \o BytesOfHex(items[1].sha) \o EmitItems(Tail(items))

\* tree_serialize(obj), for obj.items = items
tree_serialize(items) == EmitItems(SortItems(items))

------------------------------------------------------------------------------
(***************************************************************************)
(* Objects and framing.  An object is [fmt |-> "blob", blobdata |-> bytes],*)
(* [fmt |-> "commit", kvlm |-> record] or [fmt |-> "tree", items |-> seq]. *)
(***************************************************************************)
\* the class attributes fmt=b'blob', b'commit', b'tree'; b'tag' is the tag
\* the dispatch sites name
FmtBytes(fmt) ==
    CASE fmt = "blob" -> <<98, 108, 111, 98>>
      [] fmt = "commit" -> <<99, 111, 109, 109, 105, 116>>
      [] fmt = "tree" -> <<116, 114, 101, 101>>
      [] fmt = "tag" -> <<116, 97, 103>>

Fmts == {"blob", "commit", "tree", "tag"}

\* c(data): GitObject.__init__ calls deserialize(data).  The two dispatch
\* sites (object_read's and object_hash's match) name GitTag, which no
\* module defines: evaluating the name raises NameError.
GitCommit(r) ==
    IF r.kind = "ok" THEN [kind |-> "ok", obj |-> [fmt |-> "commit", kvlm |-> r.dct]] ELSE r

GitTree(r) ==
    IF r.kind = "ok" THEN [kind |-> "ok", obj |-> [fmt |-> "tree", items |-> r.items]] ELSE r

Construct(fmt, data) ==
    CASE fmt = "blob" -> [kind |-> "ok", obj |-> [fmt |-> "blob", blobdata |-> data]]
      [] fmt = "commit" -> GitCommit(kvlm_parse(data))
      [] fmt = "tree" -> GitTree(tree_parse(data))
      [] fmt = "tag" -> Raise("NameError")

\* obj.serialize()
Serialize(obj) ==
    CASE obj.fmt = "blob" -> obj.blobdata
      [] obj.fmt = "commit" -> kvlm_serialize(obj.kvlm)
      [] obj.fmt = "tree" -> tree_serialize(obj.items)

\* obj.fmt + b' ' + str(len(data)).encode() + b'\x00' + data
Frame(tag, data) == tag \o <<SP>> \o DecimalBytes(Len(data)) \o <<NUL>> \o data

\* hashlib.sha1(result).hexdigest().  SHA-1 is taken to be collision free:
\* the model's digest is a 24-bit polynomial hash of the bytes, spread over
\* 40 hex characters so that the two leading ones take four values (objects
\* then share a fan-out directory or not); Sha1Injective states that no two
\* framed inputs of the model collide.
RECURSIVE HashFold(_, _)
HashFold(b, h) ==
    IF b = << >> THEN h
    ELSE LET h2 == (h * 31 + b[1] + 1) % 16777216
         IN IF h2 >= 0 THEN HashFold(Tail(b), h2) ELSE 0

Pow16(n) == CASE n = 0 -> 1 [] n = 1 -> 16 [] n = 2 -> 256 [] n = 3 -> 4096
              [] n = 4 -> 65536 [] n = 5 -> 1048576

Sha1Hex(b) ==
    LET h == HashFold(b, 7)
    IN [i \in 1..40 |->
           IF i = 1 THEN 48
           ELSE IF i = 2 THEN HexChar(h % 4)
           ELSE IF i <= 8 THEN HexChar(((h \div 4) \div Pow16(i - 3)) % 16)
           ELSE 48]

\* zlib.compress / zlib.decompress: a stream is the header byte 0x78 and
\* the data; bytes that do not start a stream raise zlib.error
Deflate(b) == <<120>> \o b
Inflate(f) ==
    IF f # << >> /\ f[1] = 120 THEN [kind |-> "ok", raw |-> Tail(f)] ELSE Raise("zlib.error")

\* repo_dir(repo, "objects", xx, mkdir=mkdir): the path when the directory
\* exists or was made, None (FALSE here) otherwise
repo_dir_objects(dirs, xx, mkdir) ==
    IF xx \in dirs THEN [path |-> TRUE, dirs |-> dirs]
    ELSE IF mkdir THEN [path |-> TRUE, dirs |-> dirs \cup {xx}]
    ELSE [path |-> FALSE, dirs |-> dirs]

\* a plausible slip: the file is named by the whole digest, sha instead of
\* sha[2:]
repo_file_objects_whole(dirs, sha, mkdir) ==
    LET d == repo_dir_objects(dirs, Slice(sha, 0, 2), mkdir)
    IN [path |-> IF d.path THEN <<Slice(sha, 0, 2), sha>> ELSE << >>,
        isNone |-> ~d.path,
        dirs |-> d.dirs]

\* repo_file(repo, "objects", sha[0:2], sha[2:], mkdir=mkdir): the joined
\* path, here the key <<xx, rest>>, or None when repo_dir returned None
repo_file_objects(dirs, sha, mkdir) ==
    LET d == repo_dir_objects(dirs, Slice(sha, 0, 2), mkdir)
    IN [path |-> IF d.path THEN <<Slice(sha, 0, 2), Slice(sha, 2, Len(sha))>> ELSE << >>,
        isNone |-> ~d.path,
        dirs |-> d.dirs]

\* object_read(repo, sha)
\* lines 287-303: the size is validated and the constructor picked; fmt
\* is raw[0:x], y the index of the NUL, size what int() made of raw[x:y]
ReadFramed(raw, fmt, y, size) ==
    IF size.kind # "ok" THEN size
    ELSE IF size.val # Len(raw) - y - 1 THEN Raise("Malformed object")
    ELSE IF \E f \in Fmts : fmt = FmtBytes(f)
         THEN Construct(CHOOSE f \in Fmts : fmt = FmtBytes(f), Slice(raw, y + 1, Len(raw)))
    ELSE IF \E i \in 1..Len(fmt) : fmt[i] > 127 THEN Raise("UnicodeDecodeError")
    ELSE Raise("Unknown type")

\* lines 283-289: x and y are found in raw
ReadRaw(raw, x, y) == ReadFramed(raw, Slice(raw, 0, x), y, IntParse(Slice(raw, x, y)))

\* lines 280-281: the file's bytes are inflated
ReadInflated(z) ==
    IF z.kind # "ok" THEN z
    ELSE ReadRaw(z.raw, Find(z.raw, SP, 0), Find(z.raw, NUL, Find(z.raw, SP, 0)))

object_read(dirs, files, sha) ==
    LET p == repo_file_objects(dirs, sha, FALSE)
    IN IF p.isNone THEN Raise("TypeError")            \* os.path.isfile(None)
       ELSE IF p.path \notin DOMAIN files THEN [kind |-> "none"]
       ELSE ReadInflated(Inflate(files[p.path]))

\* a plausible slip: the file is opened for appending without the
\* os.path.exists test, so a second write grows it
object_write_append(dirs, files, obj) ==
    LET data == Serialize(obj)
        result == Frame(FmtBytes(obj.fmt), data)
        sha == Sha1Hex(result)
        p == repo_file_objects(dirs, sha, TRUE)
    IN [sha |-> sha,
        dirs |-> p.dirs,
        created |-> TRUE,
        files |-> [q \in DOMAIN files \cup {p.path} |->
                      IF q = p.path
                      THEN (IF q \in DOMAIN files THEN files[q] ELSE << >>) \o Deflate(result)
                      ELSE files[q]]]

\* object_write(obj, repo): the digest and the object store after it;
\* created tells whether the file was written
object_write(dirs, files, obj) ==
    LET data == Serialize(obj)
        result == Frame(FmtBytes(obj.fmt), data)
        sha == Sha1Hex(result)
        p == repo_file_objects(dirs, sha, TRUE)
    IN [sha |-> sha,
        dirs |-> p.dirs,
        created |-> p.path \notin DOMAIN files,
        files |-> IF p.path \in DOMAIN files THEN files
                  ELSE [q \in DOMAIN files \cup {p.path} |->
                           IF q = p.path THEN Deflate(result) ELSE files[q]]]

------------------------------------------------------------------------------
(***************************************************************************)
(* The object store as a state machine: hash-object (object_hash, then     *)
(* object_write) and object_read on a repository whose objects/ directory  *)
(* starts empty, as repo_create leaves it.                                 *)
(***************************************************************************)
MaxObjects == 2

Sha20 == [i \in 1..20 |-> IF i = 1 THEN 0 ELSE 171]

\* the payloads handed to hash-object: empty, text, KVLM with and without
\* fields, KVLM cut after its field, tree entries with a 6- and a 5-character
\* mode
Payloads ==
    { << >>,
      <<104, 105, 10>>,
      <<10, 109>>,
      <<107, 32, 118, 10, 10, 109>>,
      <<107, 32, 118, 10>>,
      <<49, 48, 48, 54, 52, 52, 32, 97, 0>> \o Sha20,
      <<52, 48, 48, 48, 48, 32, 100, 0>> \o Sha20 }

\* the digests a caller may ask for: of every framed input, stored or not
Digests == {Sha1Hex(Frame(FmtBytes(f), d)) : f \in Fmts, d \in Payloads}

InitStore ==
    /\ objdirs = {}
    /\ objfiles = << >>
    /\ written = {}
    /\ res = [op |-> "init"]
    /\ mem = [fmt |-> "none"]
    /\ fs = << >>

\* cmd_hash_object: object_hash(fd, fmt, repo) builds the object from the
\* file's bytes and hands it to object_write
ObjectHash(fmt, data) ==
    LET c == Construct(fmt, data)
    IN IF c.kind # "ok"
       THEN /\ res' = [op |-> "write", fmt |-> fmt, data |-> data, out |-> c]
            /\ UNCHANGED <<objdirs, objfiles, written, mem, fs>>
       ELSE LET w == object_write(objdirs, objfiles, c.obj)
            IN /\ Cardinality(DOMAIN w.files) <= MaxObjects
               /\ objdirs' = w.dirs
               /\ objfiles' = w.files
               /\ written' = written \cup {[fmt |-> fmt, data |-> data, sha |-> w.sha]}
               /\ res' = [op |-> "write", fmt |-> fmt, data |-> data,
                          out |-> [kind |-> "ok", sha |-> w.sha, created |-> w.created]]
               /\ UNCHANGED <<mem, fs>>

ObjectRead(sha) ==
    /\ res' = [op |-> "read", sha |-> sha, out |-> object_read(objdirs, objfiles, sha)]
    /\ UNCHANGED <<objdirs, objfiles, written, mem, fs>>

NextStore ==
    \/ \E fmt \in Fmts, data \in Payloads : ObjectHash(fmt, data)
    \/ \E sha \in Digests : ObjectRead(sha)

Spec == InitStore /\ [][NextStore]_vars

\* no two framed inputs of the model share a digest
Sha1Injective ==
    \A f1 \in Fmts, f2 \in Fmts, d1 \in Payloads, d2 \in Payloads :
        Sha1Hex(Frame(FmtBytes(f1), d1)) = Sha1Hex(Frame(FmtBytes(f2), d2))
            => f1 = f2 /\ d1 = d2

------------------------------------------------------------------------------
(***************************************************************************)
(* Claims about the object store.                                          *)
(***************************************************************************)
\* objects/<sha[0:2]>/<sha[2:]>
ObjPath(sha) == <<Slice(sha, 0, 2), Slice(sha, 2, Len(sha))>>

\* C1: for every byte sequence P and every legal type tag T, writing (T, P)
\* succeeds, and reading the digest the write returned yields an object of
\* type T whose serialized payload is P.
C1_RoundTrip ==
    /\ res.op = "write" => res.out.kind = "ok"
    /\ res.op = "read" =>
          \A w \in written :
              w.sha = res.sha =>
                  /\ res.out.kind = "ok"
                  /\ res.out.obj.fmt = w.fmt
                  /\ Serialize(res.out.obj) = w.data

\* C2: a write of an input that was written before returns the digest the
\* first write returned and leaves every file and directory of the object
\* store as it was.
C2_Idempotent ==
    [][\A w \in written :
          (res'.op = "write" /\ res'.fmt = w.fmt /\ res'.data = w.data)
              => /\ res'.out.kind = "ok"
                 /\ res'.out.sha = w.sha
                 /\ objfiles' = objfiles
                 /\ objdirs' = objdirs]_vars

\* a second write has happened: the last write found its file in place,
\* beside another object
C2_Witness ==
    /\ res.op = "write"
    /\ res.out.kind = "ok"
    /\ ~res.out.created
    /\ Cardinality(DOMAIN objfiles) = 2

\* the bytes are a frame: a legal tag, a space, the decimal length of what
\* follows the NUL, the NUL, the payload
IsFramed(raw) ==
    \E f \in Fmts :
        raw = Frame(FmtBytes(f), Slice(raw, Find(raw, NUL, 0) + 1, Len(raw)))

\* C3: every file under objects/ inflates to framed bytes, lies at
\* objects/<d[0:2]>/<d[2:]> for d the 40-character digest of those bytes, in
\* a directory that exists, and d is a digest a write returned.
C3_PathIsDigest ==
    \A p \in DOMAIN objfiles :
        LET z == Inflate(objfiles[p])
        IN /\ z.kind = "ok"
           /\ IsFramed(z.raw)
           /\ Len(Sha1Hex(z.raw)) = 40
           /\ Len(p[1]) = 2
           /\ p = ObjPath(Sha1Hex(z.raw))
           /\ p[1] \in objdirs
           /\ \E w \in written : w.sha = Sha1Hex(z.raw)

\* two objects are stored, in one fan-out directory
C3_Witness ==
    /\ Cardinality(DOMAIN objfiles) = 2
    /\ Cardinality(objdirs) = 1

\* C4: object_read returns the not-found result whenever no file exists at
\* objects/<sha[0:2]>/<sha[2:]>, the directory objects/<sha[0:2]> existing
\* or not.
C4_NotFound ==
    (res.op = "read" /\ ObjPath(res.sha) \notin DOMAIN objfiles)
        => res.out.kind = "none"

------------------------------------------------------------------------------
(***************************************************************************)
(* The object store with files the program did not write: a repository    *)
(* made by git, or a damaged one.  object_read opens whatever file lies at *)
(* the digest's path.                                                      *)
(***************************************************************************)
\* framed bytes found in such files: a tag object, a blob, a blob whose
\* declared length is wrong, an unknown tag with a wrong and with a right
\* length, a tag that is not ASCII, a length that is not a number
ForeignRaws ==
    { <<116, 97, 103, 32, 49, 0, 10>>,
      <<98, 108, 111, 98, 32, 51, 0, 97, 98, 99>>,
      <<98, 108, 111, 98, 32, 53, 0, 97, 98, 99>>,
      <<98, 108, 117, 98, 32, 57, 0, 97>>,
      <<98, 108, 117, 98, 32, 49, 0, 97>>,
      <<255, 32, 49, 0, 97>>,
      <<98, 108, 111, 98, 32, 120, 0, 97, 98, 99>> }

ForeignDigests == {Sha1Hex(raw) : raw \in ForeignRaws}

\* a file appears at objects/<d[0:2]>/<d[2:]>, d the digest of raw, holding
\* raw deflated, or bytes that are no zlib stream
ForeignPut(raw, deflated) ==
    LET p == ObjPath(Sha1Hex(raw))
    IN /\ p \notin DOMAIN objfiles
       /\ Cardinality(DOMAIN objfiles) < MaxObjects
       /\ objdirs' = objdirs \cup {p[1]}
       /\ objfiles' = [q \in DOMAIN objfiles \cup {p} |->
                          IF q = p THEN (IF deflated THEN Deflate(raw) ELSE raw)
                          ELSE objfiles[q]]
       /\ res' = [op |-> "foreign"]
       /\ UNCHANGED <<written, mem, fs>>

NextForeign ==
    \/ \E fmt \in Fmts, data \in Payloads : ObjectHash(fmt, data)
    \/ \E sha \in Digests \cup ForeignDigests : ObjectRead(sha)
    \/ \E raw \in ForeignRaws, deflated \in BOOLEAN : ForeignPut(raw, deflated)

SpecForeign == InitStore /\ [][NextForeign]_vars

\* what the codec of a legal tag makes of a payload
CodecResult(fmt, payload) ==
    CASE fmt = "blob" -> [kind |-> "ok"]
      [] fmt \in {"commit", "tag"} -> kvlm_parse(payload)
      [] fmt = "tree" -> tree_parse(payload)

\* C5: reading a stored file that inflates, with tag the bytes before the
\* first space, a decimal declared length between that space and the first
\* NUL, and the payload after the NUL: a declared length that differs from
\* the payload's fails as malformed; a matching one with a tag outside
\* {blob, commit, tree, tag} fails as unknown type; and there is no other
\* failure but the codec's own on the payload of a legal tag.
C5_FramingFailures ==
    (res.op = "read" /\ ObjPath(res.sha) \in DOMAIN objfiles
                     /\ Inflate(objfiles[ObjPath(res.sha)]).kind = "ok")
    => LET raw == Inflate(objfiles[ObjPath(res.sha)]).raw
           x == Find(raw, SP, 0)
           y == Find(raw, NUL, 0)
           tag == Slice(raw, 0, x)
           declared == IntParse(Slice(raw, x + 1, y))
           payload == Slice(raw, y + 1, Len(raw))
           hasLength == x >= 0 /\ y > x /\ declared.kind = "ok"
           legal == \E f \in Fmts : tag = FmtBytes(f)
       IN /\ (hasLength /\ declared.val # Len(payload))
                 => res.out = Raise("Malformed object")
          /\ (hasLength /\ declared.val = Len(payload) /\ ~legal)
                 => res.out = Raise("Unknown type")
          /\ res.out.kind # "ok"
                 => \/ res.out \in {Raise("Malformed object"), Raise("Unknown type")}
                    \/ /\ hasLength /\ declared.val = Len(payload) /\ legal
                       /\ res.out = CodecResult(CHOOSE f \in Fmts : tag = FmtBytes(f), payload)

------------------------------------------------------------------------------
(***************************************************************************)
(* The KVLM codec on the records a commit holds: a record is built field   *)
(* by field the way kvlm_parse fills its dict, serialized, parsed and      *)
(* serialized again.                                                       *)
(***************************************************************************)
MaxValBytes == 3
MaxVals == 2

\* the bytes of values and messages: a letter, the space, the newline
ValBytes == {120, SP, NL}
Values == UNION {[1..n -> ValBytes] : n \in 0..MaxValBytes}

\* keys hold no space and no newline (spec 4.D): parent, author
Keys == {<<112>>, <<97, 117>>}

Messages == {<< >>, <<109>>, <<SP, 109, NL>>, <<NL, SP, 109>>}

RECURSIVE CountVals(_)
CountVals(fields) ==
    IF fields = << >> THEN 0 ELSE Len(Head(fields).vals) + CountVals(Tail(fields))

RECURSIVE CountBytes(_)
CountBytes(vals) ==
    IF vals = << >> THEN 0 ELSE Len(Head(vals)) + CountBytes(Tail(vals))

RECURSIVE CountValBytes(_)
CountValBytes(fields) ==
    IF fields = << >> THEN 0
    ELSE CountBytes(Head(fields).vals) + CountValBytes(Tail(fields))

\* a record with no field yet and its message (dct[None], line 373)
InitKvlm ==
    /\ \E m \in Messages : mem = [fmt |-> "commit", kvlm |-> [fields |-> << >>, msg |-> m]]
    /\ res = [op |-> "init"]
    /\ objdirs = {}
    /\ objfiles = << >>
    /\ written = {}
    /\ fs = << >>

\* dct[key] = value, or the list of a key that is there grows (lines 393-399)
AddValue(key, value) ==
    /\ CountVals(mem.kvlm.fields) < MaxVals
    /\ CountValBytes(mem.kvlm.fields) + Len(value) <= MaxValBytes
    /\ mem' = [mem EXCEPT !.kvlm.fields =
                  IF \E i \in 1..Len(@) : @[i].key = key
                  THEN [i \in 1..Len(@) |->
                           IF @[i].key = key
                           THEN [key |-> key, vals |-> Append(@[i].vals, value)]
                           ELSE @[i]]
                  ELSE Append(@, [key |-> key, vals |-> <<value>>])]
    /\ res' = [op |-> "build"]
    /\ UNCHANGED <<objdirs, objfiles, written, fs>>

\* GitCommit.serialize, GitCommit.deserialize of the result, and serialize
\* of what was parsed
KvlmRoundTrip ==
    LET payload == kvlm_serialize(mem.kvlm)
        parsed == kvlm_parse(payload)
    IN /\ res' = [op |-> "kvlm", payload |-> payload, parsed |-> parsed,
                  again |-> IF parsed.kind = "ok" THEN kvlm_serialize(parsed.dct) ELSE << >>]
       /\ UNCHANGED <<mem, objdirs, objfiles, written, fs>>

NextKvlm ==
    \/ \E key \in Keys, value \in Values : AddValue(key, value)
    \/ KvlmRoundTrip

SpecKvlm == InitKvlm /\ [][NextKvlm]_vars

\* C6: for every payload P that kvlm_serialize produces, kvlm_parse(P)
\* succeeds and kvlm_serialize of it is P again; the parsed record is the
\* one serialized: the fields in their order, every value of a repeated key
\* in occurrence order, every value with its newlines as they were.
C6_KvlmRoundTrip ==
    res.op = "kvlm" =>
        /\ res.parsed.kind = "ok"
        /\ res.again = res.payload
        /\ res.parsed.dct = mem.kvlm

\* the round trip of a record with a key of two values, one of them with an
\* embedded newline
C6_Witness ==
    /\ res.op = "kvlm"
    /\ \E i \in 1..Len(mem.kvlm.fields) :
          /\ Len(mem.kvlm.fields[i].vals) = 2
          /\ \E j \in 1..2, k \in 1..MaxValBytes :
                /\ k <= Len(mem.kvlm.fields[i].vals[j])
                /\ mem.kvlm.fields[i].vals[j][k] = NL

------------------------------------------------------------------------------
(***************************************************************************)
(* The tree codec on the trees the program holds: GitTree's items are the  *)
(* leaves tree_parse read, in the order read; serializing sorts them in    *)
(* place.                                                                  *)
(***************************************************************************)
MaxEntries == 2

\* modes as they are stored: regular file, directory in 5 and in 6
\* characters, symbolic link
RawModes ==
    { <<49, 48, 48, 54, 52, 52>>, <<52, 48, 48, 48, 48>>,
      <<48, 52, 48, 48, 48, 48>>, <<49, 50, 48, 48, 48, 48>> }

\* paths in UTF-8: a, a. and a0 (which sort before and after a/), and the
\* two-byte e-acute
RawPaths == {<<97>>, <<97, 46>>, <<97, 48>>, <<195, 169>>}

RawShas == {Sha20, [i \in 1..20 |-> 255]}

InitTree ==
    /\ mem = [fmt |-> "tree", items |-> << >>]     \* GitTree.init
    /\ res = [op |-> "init"]
    /\ objdirs = {}
    /\ objfiles = << >>
    /\ written = {}
    /\ fs = << >>

\* tree_parse reads one more entry: ret.append(data) (lines 469-470)
ReadLeaf(mode, path, sha) ==
    LET one == tree_parse_one(mode \o <<SP>> \o path \o <<NUL>> \o sha, 0)
    IN /\ Len(mem.items) < MaxEntries
       /\ one.kind = "ok"
       /\ mem' = [mem EXCEPT !.items = Append(@, one.leaf)]
       /\ res' = [op |-> "build"]
       /\ UNCHANGED <<objdirs, objfiles, written, fs>>

\* GitTree.serialize (which sorts self.items), GitTree.deserialize of the
\* result, and serialize of what was parsed
TreeRoundTrip ==
    LET first == tree_serialize(mem.items)
        parsed == tree_parse(first)
    IN /\ res' = [op |-> "tree", given |-> mem.items, first |-> first, parsed |-> parsed,
                  again |-> IF parsed.kind = "ok" THEN tree_serialize(parsed.items) ELSE << >>]
       /\ mem' = [mem EXCEPT !.items = SortItems(@)]
       /\ UNCHANGED <<objdirs, objfiles, written, fs>>

NextTree ==
    \/ \E mode \in RawModes, path \in RawPaths, sha \in RawShas : ReadLeaf(mode, path, sha)
    \/ TreeRoundTrip

SpecTree == InitTree /\ [][NextTree]_vars

\* the canonical sort key: path for a leaf whose mode begins with 10,
\* path + "/" for every other leaf
CanonicalKey(leaf) ==
    IF Len(leaf.mode) >= 2 /\ leaf.mode[1] = 49 /\ leaf.mode[2] = 48
    THEN leaf.path ELSE Append(leaf.path, 47)

------------------------------------------------------------------------------
(***************************************************************************)
(* The file system and the repository layout (src/lib/repository.py).      *)
(* A path is the sequence of its components from the root << >>; fs maps   *)
(* the paths that exist to a directory node or to a file node with its     *)
(* data.  A text file's data is the sequence of its lines; a line of an    *)
(* INI file is a section header, an option, a blank line, or other text.   *)
(***************************************************************************)
Dir == [kind |-> "dir"]
File(data) == [kind |-> "file", data |-> data]

Exists(f, p) == p \in DOMAIN f                                \* os.path.exists
IsDir(f, p) == p \in DOMAIN f /\ f[p].kind = "dir"            \* os.path.isdir
IsFile(f, p) == p \in DOMAIN f /\ f[p].kind = "file"          \* os.path.isfile
Parent(p) == SubSeq(p, 1, Len(p) - 1)
IsPrefix(p, q) == Len(p) <= Len(q) /\ SubSeq(q, 1, Len(p)) = p
ListDir(f, p) == {q \in DOMAIN f : Len(q) = Len(p) + 1 /\ IsPrefix(p, q)}   \* os.listdir

\* os.makedirs(p): every missing ancestor and p itself become directories
MakeDirs(f, p) ==
    IF Exists(f, p) THEN Raise("FileExistsError")
    ELSE IF \E n \in 0..Len(p) : IsFile(f, SubSeq(p, 1, n)) THEN Raise("NotADirectoryError")
    ELSE [kind |-> "ok",
          fs |-> [q \in DOMAIN f \cup {SubSeq(p, 1, n) : n \in 0..Len(p)} |->
                     IF q \in DOMAIN f THEN f[q] ELSE Dir]]

\* with open(p, "w") as h: h.write(...)
WriteFile(f, p, data) ==
    IF IsDir(f, p) THEN Raise("IsADirectoryError")
    ELSE IF ~Exists(f, Parent(p)) THEN Raise("FileNotFoundError")
    ELSE IF ~IsDir(f, Parent(p)) THEN Raise("NotADirectoryError")
    ELSE [kind |-> "ok",
          fs |-> [q \in DOMAIN f \cup {p} |-> IF q = p THEN File(data) ELSE f[q]]]

\* repo_path(repo, *path)
repo_path(gitdir, path) == gitdir \o path

\* repo_dir(repo, *path, mkdir)
repo_dir(f, gitdir, path, mkdir) ==
    LET p == repo_path(gitdir, path)
    IN IF Exists(f, p)
       THEN IF IsDir(f, p) THEN [kind |-> "ok", isNone |-> FALSE, path |-> p, fs |-> f]
            ELSE Raise("Not a directory")
       ELSE IF mkdir
            THEN LET m == MakeDirs(f, p)
                 IN IF m.kind = "ok" THEN [kind |-> "ok", isNone |-> FALSE, path |-> p, fs |-> m.fs]
                    ELSE m
       ELSE [kind |-> "ok", isNone |-> TRUE, path |-> << >>, fs |-> f]

\* repo_file(repo, *path, mkdir)
repo_file(f, gitdir, path, mkdir) ==
    LET d == repo_dir(f, gitdir, Parent(path), mkdir)
    IN IF d.kind # "ok" \/ d.isNone THEN d
       ELSE [kind |-> "ok", isNone |-> FALSE, path |-> repo_path(gitdir, path), fs |-> d.fs]

\* ConfigParser.read on the file's lines: the sections in order, each with
\* its options in order
RECURSIVE ConfigReadFrom(_, _)
ConfigReadFrom(lines, conf) ==
    IF lines = << >> THEN [kind |-> "ok", conf |-> conf]
    ELSE LET l == Head(lines)
         IN IF "sec" \in DOMAIN l
            THEN ConfigReadFrom(Tail(lines), Append(conf, [sec |-> l.sec, opts |-> << >>]))
            ELSE IF "blank" \in DOMAIN l THEN ConfigReadFrom(Tail(lines), conf)
            ELSE IF conf = << >> THEN Raise("MissingSectionHeaderError")
            ELSE IF "key" \in DOMAIN l
                 THEN ConfigReadFrom(Tail(lines),
                          [conf EXCEPT ![Len(conf)].opts = Append(@, [key |-> l.key, val |-> l.val])])
            ELSE Raise("ParsingError")

\* conf.get(section, option)
ConfigGet(conf, sec, key) ==
    IF ~\E i \in 1..Len(conf) : conf[i].sec = sec THEN Raise("NoSectionError")
    ELSE LET c == conf[CHOOSE i \in 1..Len(conf) : conf[i].sec = sec]
         IN IF ~\E j \in 1..Len(c.opts) : c.opts[j].key = key THEN Raise("NoOptionError")
            ELSE [kind |-> "ok",
                  val |-> c.opts[CHOOSE j \in 1..Len(c.opts) : c.opts[j].key = key].val]

\* ConfigParser.write: per section its header, its options, a blank line
RECURSIVE ConfigWrite(_)
ConfigWrite(conf) ==
    IF conf = << >> THEN << >>
    ELSE <<[sec |-> Head(conf).sec]>>
         \o [j \in 1..Len(Head(conf).opts) |->
                [key |-> Head(conf).opts[j].key, val |-> Head(conf).opts[j].val]]
         \o <<[blank |-> TRUE]>>
         \o ConfigWrite(Tail(conf))

\* int(v) of an option's value: the values the model's config files hold
StrInt(v) ==
    CASE v = "0" -> [kind |-> "ok", val |-> 0]
      [] v = "1" -> [kind |-> "ok", val |-> 1]
      [] OTHER -> Raise("ValueError")

\* a plausible slip: the default configuration names format version 1
repo_default_config_v1 ==
    <<[sec |-> "core",
       opts |-> <<[key |-> "repositoryformatversion", val |-> "1"],
                  [key |-> "filemode", val |-> "false"],
                  [key |-> "bare", val |-> "false"]>>]>>

\* repo_default_config()
repo_default_config ==
    <<[sec |-> "core",
       opts |-> <<[key |-> "repositoryformatversion", val |-> "0"],
                  [key |-> "filemode", val |-> "false"],
                  [key |-> "bare", val |-> "false"]>>]>>

\* GitRepository(path, force)
GitRepository(f, path, force) ==
    LET gitdir == path \o <<".git">>
        cf == repo_file(f, gitdir, <<"config">>, FALSE)
        read == IF cf.kind = "ok" /\ ~cf.isNone /\ Exists(f, cf.path)
                THEN (IF IsFile(f, cf.path) THEN ConfigReadFrom(f[cf.path].data, << >>)
                      ELSE [kind |-> "ok", conf |-> << >>])     \* read() skips what it cannot open
                ELSE IF ~force THEN Raise("Configuration file missing")
                ELSE [kind |-> "ok", conf |-> << >>]
        vers == ConfigGet(read.conf, "core", "repositoryformatversion")
        n == StrInt(vers.val)
    IN IF ~(force \/ IsDir(f, gitdir)) THEN Raise("Not a Git repository")
       ELSE IF cf.kind # "ok" THEN cf
       ELSE IF read.kind # "ok" THEN read
       ELSE IF force THEN [kind |-> "ok",
                           repo |-> [worktree |-> path, gitdir |-> gitdir, conf |-> read.conf]]
       ELSE IF vers.kind # "ok" THEN vers
       ELSE IF n.kind # "ok" THEN n
       ELSE IF n.val # 0 THEN Raise("Unsupported repositoryformatversion")
       ELSE [kind |-> "ok", repo |-> [worktree |-> path, gitdir |-> gitdir, conf |-> read.conf]]

DescriptionText ==
    <<[text |-> "Unnamed repository: edit this file 'description' to name the repository."]>>
HeadText == <<[text |-> "ref: refs/heads/master"]>>

\* the four repo_dir(..., mkdir=True) calls of repo_create, in order; each
\* asserts a path came back
RECURSIVE MakeRepoDirs(_, _, _)
MakeRepoDirs(f, gitdir, dirs) ==
    IF dirs = << >> THEN [kind |-> "ok", fs |-> f]
    ELSE LET d == repo_dir(f, gitdir, Head(dirs), TRUE)
         IN IF d.kind # "ok" THEN d ELSE MakeRepoDirs(d.fs, gitdir, Tail(dirs))

\* the three files of repo_create, in order: (name, data)
RECURSIVE WriteRepoFiles(_, _, _)
WriteRepoFiles(f, gitdir, files) ==
    IF files = << >> THEN [kind |-> "ok", fs |-> f]
    ELSE LET p == repo_file(f, gitdir, <<Head(files)[1]>>, FALSE)
             w == WriteFile(p.fs, p.path, Head(files)[2])
         IN IF p.kind # "ok" THEN p
            ELSE IF p.isNone THEN Raise("TypeError")       \* open(None, "w")
            ELSE IF w.kind # "ok" THEN w
            ELSE WriteRepoFiles(w.fs, gitdir, Tail(files))

\* repo_create(path): the repository and the file system after it; a raise
\* keeps what was made before it
repo_create(f, path) ==
    LET r == GitRepository(f, path, TRUE)
        gitdir == path \o <<".git">>
        made == IF Exists(f, path) THEN [kind |-> "ok", fs |-> f] ELSE MakeDirs(f, path)
        dirs == MakeRepoDirs(made.fs, gitdir,
                             <<<<"branches">>, <<"objects">>, <<"refs", "tags">>, <<"refs", "heads">>>>)
        files == WriteRepoFiles(dirs.fs, gitdir,
                                <<<<"description", DescriptionText>>,
                                  <<"HEAD", HeadText>>,
                                  <<"config", ConfigWrite(repo_default_config)>>>>)
    IN IF r.kind # "ok" THEN [out |-> r, fs |-> f]
       ELSE IF Exists(f, path) /\ ~IsDir(f, path)
            THEN [out |-> Raise("is not a directory!"), fs |-> f]
       ELSE IF Exists(f, path) /\ Exists(f, gitdir) /\ ListDir(f, gitdir) # {}
            THEN [out |-> Raise("is not empty!"), fs |-> f]
       ELSE IF made.kind # "ok" THEN [out |-> made, fs |-> f]
       ELSE IF dirs.kind # "ok" THEN [out |-> dirs, fs |-> made.fs]
       ELSE IF files.kind # "ok" THEN [out |-> files, fs |-> dirs.fs]
       ELSE [out |-> [kind |-> "ok", repo |-> r.repo], fs |-> files.fs]

\* a plausible slip: os.path.exists where repo_find tests os.path.isdir
RECURSIVE repo_find_exists(_, _, _, _)
repo_find_exists(f, path, required, trail) ==
    IF Exists(f, path \o <<".git">>)
    THEN [out |-> GitRepository(f, path, FALSE), trail |-> Append(trail, path)]
    ELSE IF Parent(path) = path
         THEN [out |-> IF required THEN Raise("No git directory.") ELSE [kind |-> "none"],
               trail |-> Append(trail, path)]
    ELSE repo_find_exists(f, Parent(path), required, Append(trail, path))

\* repo_find(path, required), path canonical (no symbolic link is
\* modelled): the outcome, and trail, the paths the calls were made with
RECURSIVE repo_find(_, _, _, _)
repo_find(f, path, required, trail) ==
    IF IsDir(f, path \o <<".git">>)
    THEN [out |-> GitRepository(f, path, FALSE), trail |-> Append(trail, path)]
    ELSE IF Parent(path) = path
         THEN [out |-> IF required THEN Raise("No git directory.") ELSE [kind |-> "none"],
               trail |-> Append(trail, path)]
    ELSE repo_find(f, Parent(path), required, Append(trail, path))

------------------------------------------------------------------------------
(***************************************************************************)
(* init and repository discovery as a state machine, in a file system      *)
(* that the user changes too: /srv, /srv/proj and /srv/proj/src may be     *)
(* made, a .git may be there as a directory or as a file, with a config    *)
(* of any kind.                                                            *)
(***************************************************************************)
Srv == <<"srv">>
Proj == <<"srv", "proj">>
ProjSrc == <<"srv", "proj", "src">>

\* the directories the user may make
EnvDirs == {Srv, Proj, ProjSrc, Srv \o <<".git">>, Proj \o <<".git">>}

\* the files the user may write: a file where a work tree is wanted, a
\* .git that is a file, configs of format version 1, without a section
\* header, empty and default, and another file inside .git
EnvFiles ==
    { <<Proj, <<[text |-> "notes"]>>>>,
      <<Srv \o <<".git">>, <<[text |-> "gitdir: /elsewhere"]>>>>,
      <<Proj \o <<".git", "config">>, ConfigWrite(repo_default_config_v1)>>,
      <<Proj \o <<".git", "config">>, <<[text |-> "notes"]>>>>,
      <<Proj \o <<".git", "config">>, << >>>>,
      <<Srv \o <<".git", "config">>, ConfigWrite(repo_default_config)>>,
      <<Proj \o <<".git", "ORIG_HEAD">>, <<[text |-> "notes"]>>>> }

CreatePaths == {Srv, Proj}
FindStarts == {<< >>, Srv, Proj, ProjSrc, <<"srv", "tmp", "x">>}

InitRepo ==
    /\ fs = [p \in {<< >>} |-> Dir]
    /\ res = [op |-> "init"]
    /\ mem = [fmt |-> "none"]
    /\ objdirs = {}
    /\ objfiles = << >>
    /\ written = {}

EnvMkdir(p) ==
    /\ ~Exists(fs, p)
    /\ IsDir(fs, Parent(p))
    /\ fs' = [q \in DOMAIN fs \cup {p} |-> IF q = p THEN Dir ELSE fs[q]]
    /\ res' = [op |-> "env"]
    /\ UNCHANGED <<mem, objdirs, objfiles, written>>

EnvWrite(p, data) ==
    /\ WriteFile(fs, p, data).kind = "ok"
    /\ ListDir(fs, p) = {}
    /\ fs' = WriteFile(fs, p, data).fs
    /\ res' = [op |-> "env"]
    /\ UNCHANGED <<mem, objdirs, objfiles, written>>

\* what Create requires of path: it does not exist, or it is a directory
\* whose .git is absent or an empty directory
CreatePre(f, path) ==
    \/ ~Exists(f, path)
    \/ /\ IsDir(f, path)
       /\ \/ ~Exists(f, path \o <<".git">>)
          \/ IsDir(f, path \o <<".git">>) /\ ListDir(f, path \o <<".git">>) = {}

\* cmd_init: repo_create(path)
RepoCreate(path) ==
    LET c == repo_create(fs, path)
    IN /\ fs' = c.fs
       /\ res' = [op |-> "create", path |-> path, pre |-> CreatePre(fs, path), out |-> c.out]
       /\ UNCHANGED <<mem, objdirs, objfiles, written>>

\* repo_find(start, required)
RepoFind(start, required) ==
    LET r == repo_find(fs, start, required, << >>)
    IN /\ res' = [op |-> "find", start |-> start, required |-> required,
                  out |-> r.out, trail |-> r.trail]
       /\ UNCHANGED <<fs, mem, objdirs, objfiles, written>>

NextRepo ==
    \/ \E p \in EnvDirs : EnvMkdir(p)
    \/ \E e \in EnvFiles : EnvWrite(e[1], e[2])
    \/ \E path \in CreatePaths : RepoCreate(path)
    \/ \E start \in FindStarts, required \in BOOLEAN : RepoFind(start, required)

SpecRepo == InitRepo /\ [][NextRepo]_vars

HasGitDir(f, start) == \E n \in 0..Len(start) : IsDir(f, SubSeq(start, 1, n) \o <<".git">>)
Nearest(f, start) ==
    SubSeq(start, 1,
           CHOOSE n \in 0..Len(start) :
               /\ IsDir(f, SubSeq(start, 1, n) \o <<".git">>)
               /\ \A m \in (n + 1)..Len(start) : ~IsDir(f, SubSeq(start, 1, m) \o <<".git">>))

\* Open succeeds: .git/config is a file that parses, with
\* core.repositoryformatversion 0
OpenOk(f, path) ==
    /\ IsFile(f, path \o <<".git", "config">>)
    /\ LET c == ConfigReadFrom(f[path \o <<".git", "config">>].data, << >>)
       IN /\ c.kind = "ok"
          /\ ConfigGet(c.conf, "core", "repositoryformatversion") = [kind |-> "ok", val |-> "0"]

\* C9: repo_find(start) goes from start one parent at a time and stops at
\* the nearest directory that holds .git as a directory, where it opens the
\* repository (returning it when Open succeeds there, failing as Open fails
\* otherwise); when no directory up to the root holds one it stops at the
\* root and fails with "No git directory.", or returns nothing when
\* required is false.
C9_FindNearest ==
    res.op = "find" =>
        /\ res.trail[1] = res.start
        /\ \A i \in 1..(Len(res.trail) - 1) :
              res.trail[i] # << >> /\ res.trail[i + 1] = Parent(res.trail[i])
        /\ IF HasGitDir(fs, res.start)
           THEN /\ res.trail[Len(res.trail)] = Nearest(fs, res.start)
                /\ res.out.kind \in {"ok", "raise"}
                /\ res.out.kind = "ok" <=> OpenOk(fs, Nearest(fs, res.start))
                /\ res.out.kind = "ok" =>
                      /\ res.out.repo.worktree = Nearest(fs, res.start)
                      /\ res.out.repo.gitdir = Nearest(fs, res.start) \o <<".git">>
                /\ res.out.kind = "raise" =>
                      res.out.exc \notin {"No git directory.", "Not a Git repository"}
           ELSE /\ res.trail[Len(res.trail)] = << >>
                /\ res.out = IF res.required THEN Raise("No git directory.")
                             ELSE [kind |-> "none"]

\* discovery from /srv/proj/src passed /srv/proj, whose .git is not there,
\* and opened the repository of /srv
C9_Witness ==
    /\ res.op = "find"
    /\ res.start = ProjSrc
    /\ IsDir(fs, ProjSrc)
    /\ res.out.kind = "ok"
    /\ res.out.repo.worktree = Srv
    /\ Len(res.trail) = 3

------------------------------------------------------------------------------
(***************************************************************************)
(* checkout (cmd_checkout, tree_checkout): the objects of a repository are *)
(* written out under a destination directory.  The destination is the root *)
(* << >> of fs; a path below it is the sequence of its components, each a  *)
(* decoded entry path.                                                     *)
(***************************************************************************)
\* the components of a path string, split at "/"
RECURSIVE SplitSlash(_)
SplitSlash(s) ==
    IF s = << >> THEN << >>
    ELSE LET k == Find(s, 47, 0)
         IN IF k = -1 THEN <<s>>
            ELSE (IF k = 0 THEN << >> ELSE <<Slice(s, 0, k)>>)
                     \o SplitSlash(Slice(s, k + 1, Len(s)))

\* os.path.join(path, name): a name that begins with "/" replaces path
PathJoin(path, name) ==
    IF name # << >> /\ name[1] = 47 THEN SplitSlash(name) ELSE path \o SplitSlash(name)

\* os.mkdir(p)
MkDir(f, p) ==
    IF Exists(f, p) THEN Raise("FileExistsError")
    ELSE IF ~Exists(f, Parent(p)) THEN Raise("FileNotFoundError")
    ELSE IF ~IsDir(f, Parent(p)) THEN Raise("NotADirectoryError")
    ELSE [kind |-> "ok", fs |-> [q \in DOMAIN f \cup {p} |-> IF q = p THEN Dir ELSE f[q]]]

\* tree_checkout(repo, tree, path) on the items of tree: the outcome and
\* the destination as the call leaves it.  CheckoutItem is the loop body
\* with obj read, CheckoutRest the loop after a directory or a file was
\* written.  object_read returning None makes obj.fmt raise AttributeError.
RECURSIVE tree_checkout(_, _, _, _, _)
RECURSIVE CheckoutItem(_, _, _, _, _, _)

CheckoutRest(dirs, files, items, path, done) ==
    IF done.out.kind # "ok" THEN done
    ELSE tree_checkout(dirs, files, Tail(items), path, done.fs)

CheckoutTree(dirs, files, items, path, f, obj, m) ==
    IF m.kind # "ok" THEN [out |-> m, fs |-> f]
    ELSE CheckoutRest(dirs, files, items, path,
                      tree_checkout(dirs, files, obj.items, PathJoin(path, Head(items).path), m.fs))

CheckoutBlob(dirs, files, items, path, f, w) ==
    IF w.kind # "ok" THEN [out |-> w, fs |-> f]
    ELSE tree_checkout(dirs, files, Tail(items), path, w.fs)

CheckoutItem(dirs, files, items, path, f, r) ==
    IF r.kind = "raise" THEN [out |-> r, fs |-> f]
    ELSE IF r.kind = "none" THEN [out |-> Raise("AttributeError"), fs |-> f]
    ELSE IF r.obj.fmt = "tree"
         THEN CheckoutTree(dirs, files, items, path, f, r.obj,
                           MkDir(f, PathJoin(path, Head(items).path)))
    ELSE IF r.obj.fmt = "blob"
         THEN CheckoutBlob(dirs, files, items, path, f,
                           WriteFile(f, PathJoin(path, Head(items).path), r.obj.blobdata))
    ELSE tree_checkout(dirs, files, Tail(items), path, f)

tree_checkout(dirs, files, items, path, f) ==
    IF items = << >> THEN [out |-> [kind |-> "ok"], fs |-> f]
    ELSE CheckoutItem(dirs, files, items, path, f, object_read(dirs, files, Head(items).sha))

\* obj.kvlm[b'tree'].decode("ascii") (line 126): KeyError without the
\* field, AttributeError when the field is a list
CommitTree(kvlm) ==
    IF ~HasKey(kvlm.fields, <<116, 114, 101, 101>>) THEN Raise("KeyError")
    ELSE LET v == (CHOOSE i \in 1..Len(kvlm.fields) :
                       kvlm.fields[i].key = <<116, 114, 101, 101>>)
             vals == kvlm.fields[v].vals
         IN IF Len(vals) > 1 THEN Raise("AttributeError")
            ELSE IF \E i \in 1..Len(vals[1]) : vals[1][i] > 127 THEN Raise("UnicodeDecodeError")
            ELSE [kind |-> "ok", sha |-> vals[1]]

\* lines 128-137: the destination is made or found empty, and obj.items
\* is read (AttributeError when obj is None or has no items)
CheckoutInto(dirs, files, f, obj) ==
    IF obj.kind = "raise" THEN [out |-> obj, fs |-> f]
    ELSE IF Exists(f, << >>) /\ ~IsDir(f, << >>) THEN [out |-> Raise("Not a directory"), fs |-> f]
    ELSE IF Exists(f, << >>) /\ ListDir(f, << >>) # {} THEN [out |-> Raise("Not empty"), fs |-> f]
    ELSE IF obj.kind = "none" \/ obj.obj.fmt # "tree"
         THEN [out |-> Raise("AttributeError"),
               fs |-> IF Exists(f, << >>) THEN f ELSE [q \in {<< >>} |-> Dir]]
    ELSE tree_checkout(dirs, files, obj.obj.items, << >>,
                       IF Exists(f, << >>) THEN f ELSE [q \in {<< >>} |-> Dir])

\* line 126: the tree the commit names is read
ReadNamed(dirs, files, named) ==
    IF named.kind # "ok" THEN named ELSE object_read(dirs, files, named.sha)

\* lines 122-126: obj as line 128 finds it; None has no fmt
CheckoutObject(dirs, files, first) ==
    IF first.kind = "raise" THEN first
    ELSE IF first.kind = "none" THEN Raise("AttributeError")
    ELSE IF first.obj.fmt = "commit" THEN ReadNamed(dirs, files, CommitTree(first.obj.kvlm))
    ELSE first

\* cmd_checkout with args.commit = sha and args.path the destination
cmd_checkout(dirs, files, f, sha) ==
    CheckoutInto(dirs, files, f, CheckoutObject(dirs, files, object_read(dirs, files, sha)))

------------------------------------------------------------------------------
(***************************************************************************)
(* checkout as a state machine: blobs, trees over what is stored and       *)
(* commits are written with hash-object, a tag object lies in the store as *)
(* git wrote it, the destination is emptied by the user, and any stored    *)
(* object may be handed to checkout.                                       *)
(***************************************************************************)
MaxStored == 3

BlobPayloads == {<<120>>, <<122>>}
EntryNames == {<<97>>, <<98>>}
TagRaw == <<116, 97, 103, 32, 49, 0, 10>>

\* the digests, framed bytes, type tags and payloads of the stored objects
StoredShas == {q[1] \o q[2] : q \in DOMAIN objfiles}
StoredRaw(sha) == Inflate(objfiles[ObjPath(sha)]).raw
StoredTag(sha) == Slice(StoredRaw(sha), 0, Find(StoredRaw(sha), SP, 0))
StoredPayload(sha) ==
    Slice(StoredRaw(sha), Find(StoredRaw(sha), NUL, 0) + 1, Len(StoredRaw(sha)))

\* an entry as git writes it: the mode of the referenced object's type
\* (regular file, directory, gitlink), the name, the 20 digest bytes
EntryMode(sha) ==
    CASE StoredTag(sha) = FmtBytes("blob") -> <<49, 48, 48, 54, 52, 52>>
      [] StoredTag(sha) = FmtBytes("tree") -> <<52, 48, 48, 48, 48>>
      [] OTHER -> <<49, 54, 48, 48, 48, 48>>
Entry(name, sha) == EntryMode(sha) \o <<SP>> \o name \o <<NUL>> \o BytesOfHex(sha)

RECURSIVE Concat(_)
Concat(ss) == IF ss = << >> THEN << >> ELSE Head(ss) \o Concat(Tail(ss))

\* the bytes of the trees of up to MaxEntries entries, of different names,
\* over the stored objects
TreeEntryLists ==
    UNION { {es \in [1..n -> EntryNames \X StoredShas] :
                \A i, j \in 1..n : i # j => es[i][1] # es[j][1]} : n \in 0..MaxEntries }
TreePayloads ==
    {Concat([i \in 1..Len(es) |-> Entry(es[i][1], es[i][2])]) : es \in TreeEntryLists}

\* the bytes of the commits of the stored trees
CommitPayloads ==
    { <<116, 114, 101, 101, SP>> \o sha \o <<NL, NL, 109>> :
        sha \in {t \in StoredShas : StoredTag(t) = FmtBytes("tree")} }

InitCheckout ==
    /\ objdirs = {}
    /\ objfiles = << >>
    /\ written = {}
    /\ res = [op |-> "init"]
    /\ mem = [fmt |-> "none"]
    /\ fs = [p \in {<< >>} |-> Dir]

\* the payloads hash-object is given for a type
StorePayloads(fmt) ==
    CASE fmt = "blob" -> BlobPayloads
      [] fmt = "tree" -> TreePayloads
      [] fmt = "commit" -> CommitPayloads

Stored(w) ==
    /\ Cardinality(DOMAIN w.files) <= MaxStored
    /\ objdirs' = w.dirs
    /\ objfiles' = w.files
    /\ res' = [op |-> "store"]
    /\ UNCHANGED <<written, mem, fs>>

Constructed(c) == c.kind = "ok" /\ Stored(object_write(objdirs, objfiles, c.obj))

\* hash-object -w -t fmt
StoreObject(fmt, data) == Constructed(Construct(fmt, data))

\* the tag object is in the repository
StoreTag ==
    LET q == ObjPath(Sha1Hex(TagRaw))
    IN /\ q \notin DOMAIN objfiles
       /\ Cardinality(DOMAIN objfiles) < MaxStored
       /\ objdirs' = objdirs \cup {q[1]}
       /\ objfiles' = [r \in DOMAIN objfiles \cup {q} |->
                          IF r = q THEN Deflate(TagRaw) ELSE objfiles[r]]
       /\ res' = [op |-> "store"]
       /\ UNCHANGED <<written, mem, fs>>

\* the user empties the destination
ClearDest ==
    /\ ListDir(fs, << >>) # {}
    /\ fs' = [p \in {<< >>} |-> Dir]
    /\ res' = [op |-> "clear"]
    /\ UNCHANGED <<objdirs, objfiles, written, mem>>

\* wyag checkout sha destination
CheckedOut(sha, c) ==
    /\ fs' = c.fs
    /\ res' = [op |-> "checkout", sha |-> sha, empty |-> ListDir(fs, << >>) = {},
               out |-> c.out]
    /\ UNCHANGED <<objdirs, objfiles, written, mem>>

Checkout(sha) == CheckedOut(sha, cmd_checkout(objdirs, objfiles, fs, sha))

NextCheckout ==
    \/ \E fmt \in {"blob", "tree", "commit"} : \E data \in StorePayloads(fmt) :
          StoreObject(fmt, data)
    \/ StoreTag
    \/ ClearDest
    \/ \E sha \in StoredShas : Checkout(sha)

SpecCheckout == InitCheckout /\ [][NextCheckout]_vars

\* the tree a checkout of sha writes out: sha itself, or the tree of the
\* commit sha
RootTree(sha) ==
    IF StoredTag(sha) = FmtBytes("commit") THEN Slice(StoredPayload(sha), 5, 45) ELSE sha

\* the file hierarchy of the stored tree sha below path: a directory for
\* every entry that references a tree, with the hierarchy of that tree
\* below it, a file holding the payload for every entry that references a
\* blob, nothing for an entry that references another type
RECURSIVE Hierarchy(_, _)
Hierarchy(sha, path) ==
    LET items == tree_parse(StoredPayload(sha)).items
    IN UNION { LET d == path \o <<items[i].path>>
                   t == StoredTag(items[i].sha)
               IN IF t = FmtBytes("tree") THEN {<<d, Dir>>} \cup Hierarchy(items[i].sha, d)
                  ELSE IF t = FmtBytes("blob") THEN {<<d, File(StoredPayload(items[i].sha))>>}
                  ELSE {} : i \in 1..Len(items) }

\* C10: a checkout of a tree (or of a commit, whose tree is taken) into an
\* empty destination succeeds and leaves below the destination exactly the
\* hierarchy of the tree: directories for the entries that reference trees,
\* recursed into, files holding the payloads for the entries that reference
\* blobs, and nothing for the entries that reference other types.
C10_Materialize ==
    (/\ res.op = "checkout"
     /\ res.empty
     /\ StoredTag(res.sha) \in {FmtBytes("tree"), FmtBytes("commit")}) =>
        /\ res.out.kind = "ok"
        /\ {<<p, fs[p]>> : p \in DOMAIN fs \ {<< >>}} = Hierarchy(RootTree(res.sha), << >>)

------------------------------------------------------------------------------
(***************************************************************************)
(* kvlm_parse on any bytes: the payload of a commit handed to hash-object, *)
(* or found in a stored object, need not be what kvlm_serialize writes.    *)
(***************************************************************************)
MaxRawLen == 4

\* the bytes that steer the parser (space, newline) and one other byte
RawBytes == {120, SP, NL}
RawInputs == UNION {[1..n -> RawBytes] : n \in 0..MaxRawLen}

InitParse ==
    /\ mem \in {[fmt |-> "raw", raw |-> raw] : raw \in RawInputs}
    /\ res = [op |-> "init"]
    /\ objdirs = {}
    /\ objfiles = << >>
    /\ written = {}
    /\ fs = << >>

\* GitCommit.deserialize: self.kvlm = kvlm_parse(data)
KvlmParse ==
    /\ res.op = "init"
    /\ res' = [op |-> "parse", raw |-> mem.raw, out |-> kvlm_parse(mem.raw)]
    /\ UNCHANGED <<mem, objdirs, objfiles, written, fs>>

NextParse == KvlmParse

SpecParse == InitParse /\ [][NextParse]_vars

\* C11: kvlm_parse ends on every finite byte sequence: the call returns a
\* parsed record or raises an error, the scan for the end of a value never
\* goes on forever.
C11_Terminates ==
    res.op = "parse" => res.out.kind \in {"ok", "raise"}

====
